---------------------------- MODULE Spec2Model ----------------------------
(***************************************************************************)
(* A model of the camera photoplethysmography heart-rate monitor of        *)
(* SustainLabs (src/SustainLabs-main/src/App.tsx): the signal-processing   *)
(* functions as operators over exact rationals, and the measurement        *)
(* session (startMeasurement, the 30 fps tick, finishMeasurement,          *)
(* stopMeasurement, generateSimulatedResult, saveReading, fetchInsights)   *)
(* as a state machine over the React state and refs of the component.      *)
(*                                                                         *)
(* Numbers.  A JavaScript number is modelled as an exact rational          *)
(* [n |-> numerator, d |-> denominator] in lowest terms with d > 0, or one *)
(* of the three IEEE specials NaN = 0/0, +Infinity = 1/0, -Infinity = -1/0.*)
(* Rounding error of doubles and the sign of zero are not modelled.        *)
(*                                                                         *)
(* Closures.  The component is a React function component: every handler   *)
(* is re-created on each render and reads the state of the render that     *)
(* created it.  A timer callback installed by setInterval keeps the        *)
(* closure of the render in which startMeasurement ran, so it reads that   *)
(* render's state for the whole life of the timer, while functional        *)
(* updates (setX(prev => ...)) and refs act on the current state.  Each    *)
(* timer therefore carries the snapshot `env` of the state it closed over. *)
(***************************************************************************)
EXTENDS Integers, Sequences, FiniteSets, TLC

(***************************************************************************)
(* Program constants                                                       *)
(***************************************************************************)
CALIBRATION_TIME == 5
MEASUREMENT_TIME == 15
MAX_HEARTRATE == 220
MIN_HEARTRATE == 40
minPeakDistance == 8
samplingRate == 30


(***************************************************************************)
(* JavaScript numbers as extended rationals                                *)
(***************************************************************************)
RECURSIVE Gcd(_, _)
Gcd(a, b) == IF b = 0 THEN a ELSE Gcd(b, a % b)

IAbs(a) == IF a < 0 THEN -a ELSE a

NaN == [n |-> 0, d |-> 0]
PosInf == [n |-> 1, d |-> 0]
NegInf == [n |-> -1, d |-> 0]

\* null, for a state variable of type number | null.
NULL == [n |-> 0, d |-> -1]

\* The rational a/b in lowest terms; b = 0 gives NaN or an infinity as a/0 does.
Q(a, b) ==
    IF b = 0 THEN (IF a = 0 THEN NaN ELSE IF a > 0 THEN PosInf ELSE NegInf)
    ELSE LET g == Gcd(IAbs(a), IAbs(b))
             s == IF b < 0 THEN -1 ELSE 1
         IN  [n |-> s * (a \div g), d |-> s * (b \div g)]

R(a) == [n |-> a, d |-> 1]

IsNaN(x) == x.d = 0 /\ x.n = 0
IsFinite(x) == x.d # 0
Sign(x) == IF x.n > 0 THEN 1 ELSE IF x.n < 0 THEN -1 ELSE 0

RNeg(x) == [n |-> -x.n, d |-> x.d]

RAdd(x, y) ==
    IF IsNaN(x) \/ IsNaN(y) THEN NaN
    ELSE IF ~IsFinite(x) THEN (IF ~IsFinite(y) /\ y.n # x.n THEN NaN ELSE x)
    ELSE IF ~IsFinite(y) THEN y
    ELSE LET g == Gcd(x.d, y.d)
         IN  Q(x.n * (y.d \div g) + y.n * (x.d \div g), (x.d \div g) * y.d)

RSub(x, y) == RAdd(x, RNeg(y))

RMul(x, y) ==
    IF IsNaN(x) \/ IsNaN(y) THEN NaN
    ELSE IF ~IsFinite(x) \/ ~IsFinite(y)
         THEN Q(Sign(x) * Sign(y), 0)
    ELSE LET g1 == Gcd(IAbs(x.n), y.d)
             g2 == Gcd(IAbs(y.n), x.d)
         IN  [n |-> (x.n \div g1) * (y.n \div g2), d |-> (x.d \div g2) * (y.d \div g1)]

RDiv(x, y) ==
    IF IsNaN(x) \/ IsNaN(y) THEN NaN
    ELSE IF ~IsFinite(y) THEN (IF IsFinite(x) THEN R(0) ELSE NaN)
    ELSE IF y.n = 0 THEN Q(Sign(x), 0)
    ELSE IF ~IsFinite(x) THEN Q(Sign(x) * Sign(y), 0)
    ELSE RMul(x, Q(y.d, y.n))

\* a/b < c/d for b, d > 0, by comparing integer parts and then the reciprocals
\* of the fractional parts, so that no product of the operands is formed.
RECURSIVE FracLess(_, _, _, _)
FracLess(a, b, c, d) ==
    LET qa == a \div b
        qc == c \div d
        ra == a % b
        rc == c % d
    IN  IF qa # qc THEN qa < qc
        ELSE IF rc = 0 THEN FALSE
        ELSE IF ra = 0 THEN TRUE
        ELSE FracLess(d, rc, b, ra)

RLt(x, y) ==
    IF IsNaN(x) \/ IsNaN(y) THEN FALSE
    ELSE IF ~IsFinite(x) \/ ~IsFinite(y)
         THEN (IF ~IsFinite(x) THEN x.n ELSE 0) < (IF ~IsFinite(y) THEN y.n ELSE 0)
    ELSE FracLess(x.n, x.d, y.n, y.d)

RGt(x, y) == RLt(y, x)
REq(x, y) == ~IsNaN(x) /\ ~IsNaN(y) /\ x = y
RLe(x, y) == RLt(x, y) \/ REq(x, y)
RGe(x, y) == RLe(y, x)

RAbs(x) == [n |-> IAbs(x.n), d |-> x.d]

\* Math.min and Math.max of two numbers: NaN if either is NaN.
RMin(x, y) == IF IsNaN(x) \/ IsNaN(y) THEN NaN ELSE IF RLt(y, x) THEN y ELSE x
RMax(x, y) == IF IsNaN(x) \/ IsNaN(y) THEN NaN ELSE IF RGt(y, x) THEN y ELSE x

\* Math.floor and Math.round; Math.round(x) is floor(x + 0.5).
RFloor(x) == IF IsFinite(x) THEN R(x.n \div x.d) ELSE x
RRound(x) == IF IsFinite(x) THEN R((2 * x.n + x.d) \div (2 * x.d)) ELSE x

\* The largest s with s * s <= a, for a >= 0.
RECURSIVE ISqrtIn(_, _, _)
ISqrtIn(a, lo, hi) ==
    IF lo >= hi THEN lo
    ELSE LET mid == (lo + hi + 1) \div 2
         IN  IF mid <= a \div mid THEN ISqrtIn(a, mid, hi) ELSE ISqrtIn(a, lo, mid - 1)
ISqrt(a) == IF a <= 0 THEN 0 ELSE ISqrtIn(a, 1, IF a < 46340 THEN a ELSE 46340)

(***************************************************************************)
(* Sequences of numbers, indexed from 0 as the arrays of the source        *)
(***************************************************************************)
At(data, i) == data[i + 1]

\* The reduce of the source adds from left to right; exact fractions add up
\* to the same number in any order, and the halves are added here.
RECURSIVE SumFrom(_, _, _)
SumFrom(data, lo, hi) ==
    IF lo > hi THEN R(0)
    ELSE IF lo = hi THEN data[lo]
    ELSE LET mid == (lo + hi) \div 2
         IN  RAdd(SumFrom(data, lo, mid), SumFrom(data, mid + 1, hi))
Sum(data) == SumFrom(data, 1, Len(data))

RECURSIVE SumSqDevFrom(_, _, _, _)
SumSqDevFrom(data, m, lo, hi) ==
    IF lo > hi THEN R(0)
    ELSE IF lo = hi THEN LET dv == RSub(data[lo], m) IN RMul(dv, dv)
    ELSE LET mid == (lo + hi) \div 2
         IN  RAdd(SumSqDevFrom(data, m, lo, mid), SumSqDevFrom(data, m, mid + 1, hi))

Mean(data) == RDiv(Sum(data), R(Len(data)))
Variance(data) == RDiv(SumSqDevFrom(data, Mean(data), 1, Len(data)), R(Len(data)))

\* Math.min(...data) and Math.max(...data) of a non-empty array.
RECURSIVE MinFrom(_, _, _)
MinFrom(data, lo, hi) ==
    IF lo = hi THEN data[lo]
    ELSE LET mid == (lo + hi) \div 2
         IN  RMin(MinFrom(data, lo, mid), MinFrom(data, mid + 1, hi))
RECURSIVE MaxFrom(_, _, _)
MaxFrom(data, lo, hi) ==
    IF lo = hi THEN data[lo]
    ELSE LET mid == (lo + hi) \div 2
         IN  RMax(MaxFrom(data, lo, mid), MaxFrom(data, mid + 1, hi))
ArrayMin(data) == MinFrom(data, 1, Len(data))
ArrayMax(data) == MaxFrom(data, 1, Len(data))

\* data.slice(-k)
SliceLast(data, k) ==
    IF Len(data) <= k THEN data ELSE SubSeq(data, Len(data) - k + 1, Len(data))

IntSeq(s) == [k \in 1..Len(s) |-> R(s[k])]

(***************************************************************************)
(* Peak detection (enhancedPeakDetection, refinePeakLocation)              *)
(***************************************************************************)
\* data[i] > adaptiveThreshold, where
\*   adaptiveThreshold = mean + (1.5 + Math.min(1.0, stdDev / 20)) * stdDev
\* and stdDev = Math.sqrt(variance).  The square root is eliminated exactly:
\* with stdDev >= 20 the test is x - mean > 2.5 * stdDev, otherwise it is
\* x - mean - variance / 20 > 1.5 * stdDev; both sides are then squared.
ExceedsAdaptiveThreshold(x, mean, variance) ==
    IF IsNaN(x) \/ IsNaN(mean) \/ IsNaN(variance) THEN FALSE
    ELSE IF RGe(variance, R(400))
         THEN LET dv == RSub(x, mean)
              IN  RGt(dv, R(0)) /\ RGt(RMul(R(4), RMul(dv, dv)), RMul(R(25), variance))
    ELSE LET ev == RSub(RSub(x, mean), RDiv(variance, R(20)))
         IN  RGt(ev, R(0)) /\ RGt(RMul(R(4), RMul(ev, ev)), RMul(R(9), variance))

\* The five-point strict local maximum of the scan.
IsLocalMax(data, i) ==
    /\ RGt(At(data, i), At(data, i - 1))
    /\ RGt(At(data, i), At(data, i - 2))
    /\ RGt(At(data, i), At(data, i + 1))
    /\ RGt(At(data, i), At(data, i + 2))

refinePeakLocation(data, peakIndex) ==
    IF peakIndex <= 0 \/ peakIndex >= Len(data) - 1 THEN R(peakIndex)
    ELSE LET y1 == At(data, peakIndex - 1)
             y2 == At(data, peakIndex)
             y3 == At(data, peakIndex + 1)
             offset == RDiv(RSub(y1, y3),
                            RMul(R(2), RAdd(RSub(y1, RMul(R(2), y2)), y3)))
         IN  IF RLt(RAbs(offset), R(1)) THEN RAdd(R(peakIndex), offset)
             ELSE R(peakIndex)

\* A faulty variant of the distance test, which finds no peak nearby.
NeverTooClose(peaks, i) == FALSE

\* peaks.some(peakIndex => Math.abs(i - peakIndex) < minPeakDistance)
TooClose(peaks, i) ==
    \E k \in 1..Len(peaks) : RLt(RAbs(RSub(R(i), peaks[k])), R(minPeakDistance))

\* The scan "for (let i = 2; i < data.length - 2; i++)", from index i on.
RECURSIVE PeakScan(_, _, _, _, _)
PeakScan(data, mean, variance, i, peaks) ==
    IF i >= Len(data) - 2 THEN peaks
    ELSE IF /\ ExceedsAdaptiveThreshold(At(data, i), mean, variance)
            /\ IsLocalMax(data, i)
            /\ ~TooClose(peaks, i)
         THEN PeakScan(data, mean, variance, i + 1,
                       Append(peaks, refinePeakLocation(data, i)))
    ELSE PeakScan(data, mean, variance, i + 1, peaks)

enhancedPeakDetection(data) ==
    IF Len(data) < 10 THEN << >>
    ELSE PeakScan(data, Mean(data), Variance(data), 2, << >>)

(***************************************************************************)
(* Signal conditioning                                                     *)
(***************************************************************************)
\* The inner loop of applySavitzkyGolayFilter: the weighted sum and the sum
\* of the weights 1 / (1 + distance^2) over j = lo .. hi, as the pair <<sum, weightSum>>.
RECURSIVE WeightedWindow(_, _, _, _)
WeightedWindow(data, i, j, hi) ==
    IF j > hi THEN << R(0), R(0) >>
    ELSE LET distance == IAbs(i - j)
             weight == Q(1, 1 + distance * distance)
             rest == WeightedWindow(data, i, j + 1, hi)
         IN  << RAdd(RMul(At(data, j), weight), rest[1]), RAdd(weight, rest[2]) >>

applySavitzkyGolayFilter(data, windowSize, polynomialOrder) ==
    LET halfWindow == windowSize \div 2
        Smoothed(i) ==
            LET lo == IF i - halfWindow > 0 THEN i - halfWindow ELSE 0
                hi == IF i + halfWindow < Len(data) - 1 THEN i + halfWindow
                      ELSE Len(data) - 1
                sw == WeightedWindow(data, i, lo, hi)
            IN  RDiv(sw[1], sw[2])
    IN  [k \in 1..Len(data) |-> Smoothed(k - 1)]

\* data[j] for a loop variable j that need not be an integer: an index that is
\* not an element index reads undefined, which the += of the loop turns into NaN.
ArrayRead(data, j) ==
    IF IsFinite(j) /\ j.d = 1 /\ j.n >= 0 /\ j.n < Len(data) THEN At(data, j.n)
    ELSE NaN

\* "for (let j = from; j < to; j++) baselineSum += data[j]" with numeric bounds.
RECURSIVE LoopSum(_, _, _)
LoopSum(data, j, to) ==
    IF ~RLt(j, to) THEN R(0)
    ELSE RAdd(ArrayRead(data, j), LoopSum(data, RAdd(j, R(1)), to))

\* The values the loop variable j takes in "for (let j = from; j < to; j++)".
RECURSIVE LoopIndices(_, _)
LoopIndices(j, to) ==
    IF ~RLt(j, to) THEN << >> ELSE << j >> \o LoopIndices(RAdd(j, R(1)), to)

\* The indices j of the reads data[j] of the two loops for sample i, and the
\* divisor windowSize * 2 - windowSize / 1.5 of their sum.
BaselineReads(windowSize, i) ==
    LET third == Q(windowSize, 3)
    IN  LoopIndices(R(i - windowSize), RSub(R(i), third))
            \o LoopIndices(RAdd(R(i), third), R(i + windowSize))
BaselineDivisor(windowSize) ==
    RSub(R(windowSize * 2), RDiv(R(windowSize), Q(3, 2)))

BaselineWindow(data) ==
    IF 50 < Len(data) \div 4 THEN 50 ELSE Len(data) \div 4

\* The baseline of sample i: the two flanking sums over the divisor
\* windowSize * 2 - windowSize / 1.5.
BaselineAt(data, windowSize, i) ==
    LET third == Q(windowSize, 3)
        baselineSum ==
            RAdd(LoopSum(data, R(i - windowSize), RSub(R(i), third)),
                 LoopSum(data, RAdd(R(i), third), R(i + windowSize)))
    IN  RDiv(baselineSum, RSub(R(windowSize * 2), RDiv(R(windowSize), Q(3, 2))))

removeBaselineWander(data) ==
    LET windowSize == BaselineWindow(data)
    IN  IF windowSize < 3 THEN data
        ELSE [k \in 1..Len(data) |->
                IF k - 1 >= windowSize /\ k - 1 < Len(data) - windowSize
                THEN RAdd(RSub(data[k], BaselineAt(data, windowSize, k - 1)), R(50))
                ELSE data[k]]

\* A faulty variant of normalizeSignal, which returns its input.
NoNormalization(data) == data

normalizeSignal(data) ==
    IF Len(data) = 0 THEN data
    ELSE LET min == ArrayMin(data)
             max == ArrayMax(data)
         IN  IF REq(max, min) THEN [k \in 1..Len(data) |-> R(50)]
             ELSE [k \in 1..Len(data) |->
                     RAdd(RMul(RDiv(RSub(data[k], min), RSub(max, min)), R(80)), R(10))]

applyAdvancedSignalProcessing(data) ==
    IF Len(data) < 20 THEN data
    ELSE normalizeSignal(removeBaselineWander(applySavitzkyGolayFilter(data, 5, 3)))

processPPG(data) ==
    IF Len(data) <= 10 THEN data ELSE applyAdvancedSignalProcessing(data)

(***************************************************************************)
(* Rate filter (kalmanFilterHeartRate)                                     *)
(***************************************************************************)
\* The truthiness of a number | null: null, 0 and NaN are falsy.
Truthy(x) == x # NULL /\ ~IsNaN(x) /\ x.n # 0

\* The state object built at the start of every call: "heartRate || 75" and
\* 100.  heartRate is the variable of the enclosing render.
KalmanPrior(hr) ==
    [estimate |-> IF Truthy(hr) THEN hr ELSE R(75), errorCovariance |-> R(100)]

\* The update step with the measurement noise taken as uncertainty - 100.
NegatedNoiseUpdate(state, newMeasurement, uncertainty) ==
    LET kalmanGain == RDiv(RAdd(state.errorCovariance, R(1)),
                           RAdd(RAdd(state.errorCovariance, R(1)),
                                RSub(uncertainty, R(100))))
    IN  [estimate |-> RAdd(state.estimate,
                           RMul(kalmanGain, RSub(newMeasurement, state.estimate))),
         errorCovariance |-> RMul(RSub(R(1), kalmanGain),
                                  RAdd(state.errorCovariance, R(1))),
         gain |-> kalmanGain]

\* The prediction and update steps on a given prior.
KalmanUpdate(state, newMeasurement, uncertainty) ==
    LET processNoise == R(1)
        measurementNoise == RSub(R(100), uncertainty)
        predictedEstimate == state.estimate
        predictedErrorCovariance == RAdd(state.errorCovariance, processNoise)
        kalmanGain == RDiv(predictedErrorCovariance,
                           RAdd(predictedErrorCovariance, measurementNoise))
    IN  [estimate |-> RAdd(predictedEstimate,
                           RMul(kalmanGain, RSub(newMeasurement, predictedEstimate))),
         errorCovariance |-> RMul(RSub(R(1), kalmanGain), predictedErrorCovariance),
         gain |-> kalmanGain]

kalmanFilterHeartRate(hr, newMeasurement, uncertainty) ==
    RRound(KalmanUpdate(KalmanPrior(hr), newMeasurement, uncertainty).estimate)

(***************************************************************************)
(* Signal quality and oxygen estimation                                    *)
(***************************************************************************)
\* peaks[i] - peaks[i-1] for i = 1 .. peaks.length - 1
Intervals(peaks) ==
    [k \in 1..(Len(peaks) - 1) |-> RSub(peaks[k + 1], peaks[k])]

\* Math.sqrt of a non-negative rational, exact when numerator and denominator
\* are perfect squares and otherwise rounded down to a multiple of 1/SqrtScale.
SqrtScale == 100
RSqrt(x) ==
    IF IsNaN(x) \/ x.n < 0 THEN NaN
    ELSE IF ~IsFinite(x) THEN x
    ELSE LET sn == ISqrt(x.n)
             sd == ISqrt(x.d)
         IN  IF sn * sn = x.n /\ sd * sd = x.d THEN Q(sn, sd)
             ELSE Q(ISqrt((x.n * SqrtScale * SqrtScale) \div x.d), SqrtScale)

calculatePulsatilityIndex(data) ==
    IF Len(data) < 5 THEN R(0)
    ELSE LET max == ArrayMax(data)
             min == ArrayMin(data)
             mean == Mean(data)
         IN  IF REq(mean, R(0)) THEN R(0) ELSE RDiv(RSub(max, min), mean)

\* A faulty variant of the score, which gives 0 to a signal with fewer than
\* two peaks.
ZeroLowQuality(data) ==
    IF Len(data) < 20 THEN R(0)
    ELSE LET peaks == enhancedPeakDetection(data)
         IN  IF Len(peaks) < 2 THEN R(0)
             ELSE LET intervals == Intervals(peaks)
                      cv == RDiv(RSqrt(Variance(intervals)), Mean(intervals))
                      regularityScore == RMax(R(0), RMin(R(1), RSub(R(1), cv)))
                      amplitudeScore ==
                          RMin(R(1), RDiv(RSub(ArrayMax(data), ArrayMin(data)), R(50)))
                  IN  RAdd(RMul(Q(7, 10), regularityScore), RMul(Q(3, 10), amplitudeScore))

\* A faulty variant of calculateSignalQuality, which does not cap the amplitude
\* score at 1.
UnclampedQuality(data) ==
    IF Len(data) < 20 THEN R(0)
    ELSE LET peaks == enhancedPeakDetection(data)
         IN  IF Len(peaks) < 2 THEN Q(1, 5)
             ELSE LET intervals == Intervals(peaks)
                      cv == RDiv(RSqrt(Variance(intervals)), Mean(intervals))
                      regularityScore == RMax(R(0), RMin(R(1), RSub(R(1), cv)))
                      signalStrength == RDiv(RSub(ArrayMax(data), ArrayMin(data)), R(50))
                  IN  RAdd(RMul(Q(7, 10), regularityScore), RMul(Q(3, 10), signalStrength))

calculateSignalQuality(data) ==
    IF Len(data) < 20 THEN R(0)
    ELSE LET peaks == enhancedPeakDetection(data)
         IN  IF Len(peaks) < 2 THEN Q(1, 5)
             ELSE LET intervals == Intervals(peaks)
                      meanInterval == Mean(intervals)
                      intervalVariance == Variance(intervals)
                      cv == RDiv(RSqrt(intervalVariance), meanInterval)
                      regularityScore == RMax(R(0), RMin(R(1), RSub(R(1), cv)))
                      signalStrength == RDiv(RSub(ArrayMax(data), ArrayMin(data)), R(50))
                      amplitudeScore == RMin(R(1), signalStrength)
                  IN  RAdd(RMul(Q(7, 10), regularityScore), RMul(Q(3, 10), amplitudeScore))

\* A faulty variant of the combination, which ignores the weights.
UnweightedOxygen(redPI, greenPI, bluePI, redQuality, greenQuality, blueQuality) ==
    LET spO2Estimate1 == RSub(R(110), RMul(R(25), RDiv(redPI, greenPI)))
        spO2Estimate2 == RSub(R(104), RMul(R(17), RDiv(redPI, bluePI)))
    IN  IF RGt(RAdd(RMul(redQuality, greenQuality), RMul(redQuality, blueQuality)), R(0))
        THEN RMin(R(100), RMax(R(85),
                 RRound(RDiv(RAdd(spO2Estimate1, spO2Estimate2), R(2)))))
        ELSE R(97)

\* The weighted combination of the two ratio-of-ratios estimates.
CombineOxygen(redPI, greenPI, bluePI, redQuality, greenQuality, blueQuality) ==
    LET r1 == RDiv(redPI, greenPI)
        r2 == RDiv(redPI, bluePI)
        spO2Estimate1 == RSub(R(110), RMul(R(25), r1))
        spO2Estimate2 == RSub(R(104), RMul(R(17), r2))
        w1 == RMul(redQuality, greenQuality)
        w2 == RMul(redQuality, blueQuality)
        totalWeight == RAdd(w1, w2)
    IN  IF RGt(totalWeight, R(0))
        THEN RMin(R(100), RMax(R(85),
                 RRound(RDiv(RAdd(RMul(spO2Estimate1, w1), RMul(spO2Estimate2, w2)),
                             totalWeight))))
        ELSE R(97)

\* The estimate from the three conditioned channels.
OxygenOfProcessed(processedRed, processedGreen, processedBlue) ==
    CombineOxygen(calculatePulsatilityIndex(processedRed),
                  calculatePulsatilityIndex(processedGreen),
                  calculatePulsatilityIndex(processedBlue),
                  calculateSignalQuality(processedRed),
                  calculateSignalQuality(processedGreen),
                  calculateSignalQuality(processedBlue))

\* null, or the estimate (which is NaN when a ratio or a channel is NaN).
enhancedOxygenEstimation(redData, greenData, blueData) ==
    IF Len(redData) < 30 \/ Len(greenData) < 30 \/ Len(blueData) < 30 THEN NULL
    ELSE OxygenOfProcessed(applyAdvancedSignalProcessing(SliceLast(redData, 100)),
                           applyAdvancedSignalProcessing(SliceLast(greenData, 100)),
                           applyAdvancedSignalProcessing(SliceLast(blueData, 100)))

(***************************************************************************)
(* Liveness check and zone                                                 *)
(***************************************************************************)
\* A faulty variant of the liveness check, which tests red dominance only.
RedDominantOnly(redVal, greenVal, blueVal) ==
    RGt(redVal, greenVal) /\ RGt(redVal, blueVal)

verifyHumanFingerprint(redVal, greenVal, blueVal) ==
    LET isRedDominant == RGt(redVal, greenVal) /\ RGt(redVal, blueVal)
        isGreenSecondary == RGt(greenVal, blueVal)
        redToBlueRatio ==
            RDiv(redVal, IF IsNaN(blueVal) \/ blueVal.n = 0 THEN R(1) ELSE blueVal)
        hasExpectedColorProfile == RGt(redToBlueRatio, Q(13, 10))
    IN  isRedDominant /\ isGreenSecondary /\ hasExpectedColorProfile

\* A faulty variant of the maximum rate, which ignores the configured baseline.
AgeMaxHR(healthProfile) ==
    RSub(R(220), IF Truthy(healthProfile.age) THEN healthProfile.age ELSE R(30))

\* healthProfile.baselines?.maxHR || (220 - (healthProfile.age || 30)); a
\* profile is the record of its age and baselines.maxHR, NULL when not set.
ProfileMaxHR(healthProfile) ==
    IF Truthy(healthProfile.maxHR) THEN healthProfile.maxHR
    ELSE RSub(R(220), IF Truthy(healthProfile.age) THEN healthProfile.age ELSE R(30))

ZoneOfPercentage(percentage) ==
    IF RLt(percentage, R(50)) THEN "Rest"
    ELSE IF RLt(percentage, R(60)) THEN "Very Light"
    ELSE IF RLt(percentage, R(70)) THEN "Light"
    ELSE IF RLt(percentage, R(80)) THEN "Moderate"
    ELSE IF RLt(percentage, R(90)) THEN "Hard"
    ELSE "Maximum"

getHeartRateZone(hr, healthProfile) ==
    IF ~Truthy(hr) THEN "Unknown"
    ELSE ZoneOfPercentage(RMul(RDiv(hr, ProfileMaxHR(healthProfile)), R(100)))

\* The window size the callback works out from the sensitivity setting.
TickWindowSize(sensitivity) ==
    IF sensitivity = "high" THEN 3 ELSE IF sensitivity = "low" THEN 7 ELSE 5

(***************************************************************************)
(* Bounds of the model and the inputs it draws                             *)
(***************************************************************************)
\* The longest raw history a session accumulates.
MaxSamples == 14
\* The number of times startMeasurement starts a timer.
MaxSessions == 3
\* The camera requests (initializeCamera) that may be pending at once, and
\* the number of times initializeHeartRateMonitor runs.
MaxPendingInit == 1
MaxInitializations == 1
\* The fetchInsights calls that may be in flight at once.
MaxInsightCalls == 1
\* The longest list of saved readings (two sample readings are there from the start).
MaxSavedReadings == 4

\* Frames that show the finger come in bursts: the user acts, the camera
\* answers and the clock reaches its next instant only when the raw history
\* holds one of these numbers of samples.
BurstLengths == {0, 2, MaxSamples}

\* The instants, in seconds since the latest session start, at which the
\* clock is read: before the calibration ends, at its end, at the end of the
\* measurement.
Instants == {0, CALIBRATION_TIME, MEASUREMENT_TIME}

\* The values Math.random() returns.
RandomUnit == {Q(0, 1), Q(19, 20)}
\* The two numbers one run of a handler draws (for the rate, for the oxygen).
RandomDraws == {<< u, u >> : u \in RandomUnit}

\* The scenes in front of the camera: a finger whose green channel pulses
\* once every `period` frames (225 and 200 beats per minute at 30 fps).
PulsePeriods == {8, 9}
\* The scene of a canvas that yields no 2d context (canvas.getContext('2d')
\* returns null), whatever the camera sees.
NoContext == 0

\* The averaged colours of the k-th live frame of a scene, and of a frame
\* that shows no finger.
LiveFrame(period, k) ==
    [r |-> R(20), g |-> IF k % period = 3 THEN R(10) ELSE R(1), b |-> R(0)]
DeadFrame == [r |-> R(1), g |-> R(1), b |-> R(1)]

\* The sample history loaded on mount when there is none, and the two sample
\* saved readings.
SampleHistory == [k \in 1..14 |-> R(60)]
SampleOxygenHistory == [k \in 1..14 |-> R(97)]
SampleSavedReadings ==
    << [heartRate |-> R(68), oxygenLevel |-> R(98), note |-> "Morning reading, after 8hrs sleep"],
       [heartRate |-> R(72), oxygenLevel |-> R(97), note |-> "After light exercise"] >>

\* measurementStartTime.current = null
NoTime == -1

\* No pure-function call is under check; a call has not returned yet.
NoCall == [fn |-> "none"]
Pending == [done |-> FALSE]
Returned(v) == [done |-> TRUE, value |-> v]

(***************************************************************************)
(* State: the React state and refs of the component                        *)
(***************************************************************************)
VARIABLES
    isStarted, loading, error, isMeasuring, calibrating, showingResults,
    heartRate, oxygenLevel, confidence, measurements,
    signal, processedSignal, redData, greenData, blueData,
    timeElapsed, measurementProgress, isHumanDetected, fingerprintDetected,
    heartRateHistory, oxygenHistory, savedReadings,
    isLoadingInsights, healthInsights, healthScore, personalizedTips,
    patternAnalysis, trendingIndicator,
    intervalRef,            \* intervalRef.current: a timer id, or 0 for null
    measurementStartTime,   \* measurementStartTime.current, or NoTime
    timers,                 \* the active setInterval timers, each with its closure
    cameraRequests,         \* pending initializeCamera calls, each with its closure
    insightCalls,           \* pending fetchInsights calls, each with its closure
    now,                    \* Date.now(), in seconds since the latest session start
    scene,                  \* what the camera sees
    sessions,               \* how many times startMeasurement has started a timer
    initializations,        \* how many times initializeHeartRateMonitor has run
    call,                   \* a call of a pure function checked on its own, or NoCall
    result                  \* what the call returned, or Pending

flagVars == << isStarted, loading, error, isMeasuring, calibrating, showingResults >>
resultVars == << heartRate, oxygenLevel, confidence, measurements >>
bufferVars == << signal, processedSignal, redData, greenData, blueData >>
progressVars == << timeElapsed, measurementProgress, isHumanDetected, fingerprintDetected >>
historyVars == << heartRateHistory, oxygenHistory, savedReadings >>
insightVars == << isLoadingInsights, healthInsights, healthScore, personalizedTips,
                  patternAnalysis, trendingIndicator >>
refVars == << intervalRef, measurementStartTime, timers >>
asyncVars == << cameraRequests, insightCalls >>
fixedVars == << scene, call, result >>
envVars == << now, sessions, initializations, fixedVars >>
vars == << flagVars, resultVars, bufferVars, progressVars, historyVars, insightVars,
           refVars, asyncVars, envVars >>

\* The state a handler created by the current render reads through its closure.
\* No burst of frames is under way.
BetweenBursts == Len(signal) \in BurstLengths

Closure ==
    [signal |-> signal, redData |-> redData, greenData |-> greenData,
     blueData |-> blueData, heartRate |-> heartRate, confidence |-> confidence,
     measurements |-> measurements, oxygenLevel |-> oxygenLevel,
     calibrating |-> calibrating, heartRateHistory |-> heartRateHistory]

\* videoRef.current and canvasRef.current: the elements are rendered while isStarted.
RefsMounted == isStarted

InitComponent ==
    /\ isStarted = FALSE /\ loading = FALSE /\ error = "none"
    /\ isMeasuring = FALSE /\ calibrating = FALSE /\ showingResults = FALSE
    /\ heartRate = NULL /\ oxygenLevel = NULL /\ confidence = R(0)
    /\ measurements = << >>
    /\ signal = << >> /\ processedSignal = << >>
    /\ redData = << >> /\ greenData = << >> /\ blueData = << >>
    /\ timeElapsed = R(0) /\ measurementProgress = R(0)
    /\ isHumanDetected = FALSE /\ fingerprintDetected = FALSE
    /\ heartRateHistory = SampleHistory /\ oxygenHistory = SampleOxygenHistory
    /\ savedReadings = SampleSavedReadings
    /\ isLoadingInsights = FALSE /\ healthInsights = NULL /\ healthScore = R(75)
    /\ personalizedTips = NULL /\ patternAnalysis = NULL /\ trendingIndicator = "stable"
    /\ intervalRef = 0 /\ measurementStartTime = NoTime /\ timers = {}
    /\ cameraRequests = {} /\ insightCalls = {}
    /\ now = 0 /\ sessions = 0 /\ initializations = 0

Init == InitComponent /\ scene \in PulsePeriods /\ call = NoCall /\ result = Pending

(***************************************************************************)
(* Saving a reading, the simulated result, insights                        *)
(***************************************************************************)
\* saveReading, read through a closure holding hr (heartRate) and o2
\* (oxygenLevel): the three histories after the call.
saveReading(hr, o2, hist, ohist, saved) ==
    IF ~Truthy(hr) THEN [hist |-> hist, ohist |-> ohist, saved |-> saved]
    ELSE [hist |-> Append(hist, hr),
          ohist |-> IF Truthy(o2) THEN Append(ohist, o2) ELSE ohist,
          saved |-> Append(saved, [heartRate |-> hr,
                                   oxygenLevel |-> IF Truthy(o2) THEN o2 ELSE R(95),
                                   note |-> ""])]

\* 65 + Math.floor(Math.random() * 20) and 96 + Math.floor(Math.random() * 3)
SimulatedHR(rnd) == RAdd(R(65), RFloor(RMul(rnd, R(20))))
SimulatedO2(rnd) == RAdd(R(96), RFloor(RMul(rnd, R(3))))

\* generateSimulatedResult: the values it sets and the histories after it.
generateSimulatedResult(rndHR, rndO2, hist, ohist, saved) ==
    LET simulatedHR == SimulatedHR(rndHR)
        simulatedO2 == SimulatedO2(rndO2)
    IN  [heartRate |-> simulatedHR, oxygenLevel |-> simulatedO2,
         measurements |-> << simulatedHR >>,
         hist |-> Append(hist, simulatedHR),
         ohist |-> Append(ohist, simulatedO2),
         saved |-> Append(saved, [heartRate |-> simulatedHR, oxygenLevel |-> simulatedO2,
                                  note |-> "Auto-generated reading"])]

\* The final heart rate of finishMeasurement: the rounded mean of
\* measurements.slice(-5).
AverageHR(ms) == RRound(Mean(SliceLast(ms, 5)))

\* A fetchInsights call made through closure e, waiting at `stage`:
\* 0 the setTimeout of generateSimulatedResult, 1 getHealthInsights,
\* 2 getPersonalizedHealthTips, 3 analyzeHeartRatePatterns.
InsightCall(e, stage) ==
    [stage |-> stage, heartRate |-> e.heartRate,
     oxygenLevel |-> IF Truthy(e.oxygenLevel) THEN e.oxygenLevel ELSE R(97),
     historyLength |-> Len(e.heartRateHistory)]

\* fetchInsights returns at once when the closure holds no heart rate.
fetchInsights(e, calls) ==
    IF ~Truthy(e.heartRate) THEN calls ELSE calls \cup {InsightCall(e, 1)}

(***************************************************************************)
(* The per-tick estimate (the body of the interval callback up to the      *)
(* elapsed-time update), read through the closure e of the timer           *)
(***************************************************************************)
\* Math.round(60 * samplingRate / avgInterval)
CalculatedHR(peaks) == RRound(RDiv(R(60 * samplingRate), Mean(Intervals(peaks))))

\* A faulty variant of the plausibility test, which lets every rate through.
AnyRate(hr) == TRUE

\* calculatedHR >= MIN_HEARTRATE && calculatedHR <= MAX_HEARTRATE
InRange(hr) == RGe(hr, R(MIN_HEARTRATE)) /\ RLe(hr, R(MAX_HEARTRATE))

\* What one run of the callback works out; `run` is "signal.length > 10",
\* `accepted` is "two peaks and a plausible rate".
NoEstimate(run, processed, calculatedHR) ==
    [run |-> run, processed |-> processed, calculatedHR |-> calculatedHR,
     accepted |-> FALSE, filteredHR |-> NULL, oxygenEstimate |-> NULL,
     confidence |-> R(0), fingerprintDetected |-> FALSE]

AcceptedEstimate(processed, calculatedHR, filteredHR, oxygenEstimate, signalQuality) ==
    [run |-> TRUE, processed |-> processed, calculatedHR |-> calculatedHR,
     accepted |-> TRUE, filteredHR |-> filteredHR, oxygenEstimate |-> oxygenEstimate,
     confidence |-> RMul(signalQuality, R(100)),
     fingerprintDetected |-> RGt(signalQuality, Q(1, 2))]

EstimateOfRate(e, processed, calculatedHR) ==
    IF ~InRange(calculatedHR) THEN NoEstimate(TRUE, processed, calculatedHR)
    ELSE AcceptedEstimate(processed, calculatedHR,
                          kalmanFilterHeartRate(e.heartRate, calculatedHR, e.confidence),
                          enhancedOxygenEstimation(e.redData, e.greenData, e.blueData),
                          calculateSignalQuality(processed))

EstimateOfPeaks(e, processed, peaks) ==
    IF Len(peaks) >= 2 THEN EstimateOfRate(e, processed, CalculatedHR(peaks))
    ELSE NoEstimate(TRUE, processed, NULL)

EstimateOfProcessed(e, processed) ==
    EstimateOfPeaks(e, processed, enhancedPeakDetection(processed))

TickEstimate(e) ==
    IF Len(e.signal) > 10 THEN EstimateOfProcessed(e, processPPG(e.signal))
    ELSE NoEstimate(FALSE, << >>, NULL)

\* A faulty variant of clearInterval, which cancels nothing.
KeepInterval(id) == timers

\* A faulty variant of the progress computation, which never advances.
NoProgress(elapsed) == R(0)

\* Math.min(100, (elapsed / MEASUREMENT_TIME) * 100)
ProgressPercent(elapsed) ==
    RMin(R(100), RMul(RDiv(R(elapsed), R(MEASUREMENT_TIME)), R(100)))

\* clearInterval(id)
ClearInterval(id) == {t \in timers : t.id # id}

(***************************************************************************)
(* Operations                                                              *)
(***************************************************************************)
\* startMeasurement, read through closure e.  Without the video or canvas
\* element it only generates a simulated result; otherwise it resets the
\* session state and installs a new interval timer whose callback keeps e.
\* The time origin of the model moves to the start: only differences of
\* Date.now() and measurementStartTime.current are ever read.
startMeasurement(e) ==
    IF ~RefsMounted
    THEN \E rnd \in RandomDraws :
            LET sim == generateSimulatedResult(rnd[1], rnd[2], heartRateHistory,
                                               oxygenHistory, savedReadings)
            IN  /\ Len(savedReadings) < MaxSavedReadings
                /\ Truthy(e.heartRate) => Cardinality(insightCalls) < MaxInsightCalls
                /\ heartRate' = sim.heartRate
                /\ oxygenLevel' = sim.oxygenLevel
                /\ measurements' = sim.measurements
                /\ heartRateHistory' = sim.hist
                /\ oxygenHistory' = sim.ohist
                /\ savedReadings' = sim.saved
                /\ showingResults' = TRUE
                /\ insightCalls' = IF Truthy(e.heartRate)
                                   THEN insightCalls \cup {InsightCall(e, 0)}
                                   ELSE insightCalls
                /\ UNCHANGED << error, isMeasuring, calibrating, confidence, bufferVars,
                                progressVars, insightVars, refVars, envVars >>
    ELSE /\ sessions < MaxSessions
         /\ isMeasuring' = TRUE
         /\ calibrating' = TRUE
         /\ timeElapsed' = R(0)
         /\ measurementProgress' = R(0)
         /\ showingResults' = FALSE
         /\ error' = "none"
         /\ measurements' = << >>
         /\ signal' = << >>
         /\ processedSignal' = << >>
         /\ redData' = << >>
         /\ greenData' = << >>
         /\ blueData' = << >>
         /\ measurementStartTime' = 0
         /\ now' = 0
         /\ sessions' = sessions + 1
         /\ intervalRef' = sessions + 1
         \* the callback's estimate depends on its closure only: it is worked out
         \* here, once, and read by every run of the callback
         /\ timers' = timers \cup {[id |-> sessions + 1, env |-> e,
                                      estimate |-> TickEstimate(e)]}
         /\ UNCHANGED << heartRate, oxygenLevel, confidence, isHumanDetected,
                         fingerprintDetected, historyVars, insightVars, insightCalls,
                         initializations, fixedVars >>

\* The "Measure" button, shown while the camera view is up and no measurement runs.
ClickMeasure ==
    /\ BetweenBursts
    /\ isStarted /\ ~isMeasuring
    /\ startMeasurement(Closure)
    /\ UNCHANGED << isStarted, loading, cameraRequests >>

\* initializeHeartRateMonitor up to its await, with initializeCamera up to its
\* first await: the "Start" buttons, shown before the monitor is started and,
\* in the results tab, while there is no heart rate.
ClickInitialize ==
    /\ BetweenBursts
    /\ (~isStarted /\ ~loading) \/ ~Truthy(heartRate)
    /\ Cardinality(cameraRequests) < MaxPendingInit
    /\ isStarted' = TRUE
    /\ loading' = TRUE
    /\ error' = "none"
    /\ initializations < MaxInitializations
    /\ initializations' = initializations + 1
    /\ cameraRequests' = cameraRequests \cup {Closure}
    /\ UNCHANGED << isMeasuring, calibrating, showingResults, resultVars, bufferVars,
                    progressVars, historyVars, insightVars, refVars, insightCalls,
                    now, sessions, fixedVars >>

\* The camera is granted: initializeCamera returns and initializeHeartRateMonitor
\* goes on to startMeasurement, still in the closure of the click.
CameraGranted(c) ==
    /\ BetweenBursts
    /\ c \in cameraRequests
    /\ cameraRequests' = cameraRequests \ {c}
    /\ loading' = FALSE
    /\ isStarted' = TRUE
    /\ startMeasurement(c)

\* The camera is refused: initializeCamera rethrows and the catch block of
\* initializeHeartRateMonitor sets the error.
CameraDenied(c) ==
    /\ BetweenBursts
    /\ c \in cameraRequests
    /\ cameraRequests' = cameraRequests \ {c}
    /\ loading' = FALSE
    /\ error' = "Failed to start heart rate monitor. Please try again."
    /\ UNCHANGED << isStarted, isMeasuring, calibrating, showingResults, resultVars,
                    bufferVars, progressVars, historyVars, insightVars, refVars,
                    insightCalls, envVars >>

\* The "Reset" button of the camera view: the video and canvas are unmounted.
ClickReset ==
    /\ BetweenBursts
    /\ isStarted /\ ~isMeasuring
    /\ isStarted' = FALSE
    /\ isHumanDetected' = FALSE
    /\ UNCHANGED << loading, error, isMeasuring, calibrating, showingResults, resultVars,
                    bufferVars, timeElapsed, measurementProgress, fingerprintDetected,
                    historyVars, insightVars, refVars, asyncVars, envVars >>

\* stopMeasurement, the "Cancel" button of the measuring overlay.
stopMeasurement ==
    /\ BetweenBursts
    /\ isMeasuring
    /\ timers' = IF intervalRef # 0 THEN ClearInterval(intervalRef) ELSE timers
    /\ intervalRef' = 0
    /\ isMeasuring' = FALSE
    /\ calibrating' = FALSE
    /\ LET sav == IF Truthy(heartRate) /\ RGt(heartRate, R(0))
                  THEN saveReading(heartRate, oxygenLevel, heartRateHistory,
                                   oxygenHistory, savedReadings)
                  ELSE [hist |-> heartRateHistory, ohist |-> oxygenHistory,
                        saved |-> savedReadings]
       IN  /\ Len(sav.saved) <= MaxSavedReadings
           /\ heartRateHistory' = sav.hist
           /\ oxygenHistory' = sav.ohist
           /\ savedReadings' = sav.saved
    /\ UNCHANGED << isStarted, loading, error, showingResults, resultVars, bufferVars,
                    progressVars, insightVars, measurementStartTime, asyncVars, envVars >>

\* Time passes while some timer is running.
ClockAdvance ==
    /\ BetweenBursts
    /\ timers # {}
    /\ \E t \in Instants : t > now /\ now' = t
    /\ UNCHANGED << flagVars, resultVars, bufferVars, progressVars, historyVars,
                    insightVars, refVars, asyncVars, sessions, initializations,
                    fixedVars >>

\* One run of the interval callback of timer t (closure t.env).  `live` is
\* whether the frame shows the finger; the two random numbers are those the
\* finish path draws.
Tick(t) ==
    /\ t \in timers
    /\ IF ~RefsMounted \/ scene = NoContext
       THEN UNCHANGED vars      \* "if (!videoRef.current || !canvasRef.current) return"
                                \* and "if (!context) return"
       ELSE \E live \in BOOLEAN, rnd \in RandomDraws :
          LET e == t.env
              rndHR == rnd[1]
              rndO2 == rnd[2]
              frame == IF live THEN LiveFrame(scene, Len(signal) + 1) ELSE DeadFrame
              isProbablyHuman == verifyHumanFingerprint(frame.r, frame.g, frame.b)
              est == t.estimate
              accepted == isProbablyHuman /\ est.accepted
              elapsed == now - measurementStartTime
              finishing == elapsed >= MEASUREMENT_TIME
              averaged == finishing /\ Len(e.measurements) >= 2
              simulated == finishing /\ ~averaged
              sim == generateSimulatedResult(rndHR, rndO2, heartRateHistory,
                                             oxygenHistory, savedReadings)
              sav == saveReading(e.heartRate, e.oxygenLevel, heartRateHistory,
                                 oxygenHistory, savedReadings)
          IN  /\ live => Len(signal) < MaxSamples
              /\ simulated => Len(savedReadings) < MaxSavedReadings
              /\ finishing /\ Truthy(e.heartRate)
                    => Cardinality(insightCalls) < MaxInsightCalls
              /\ averaged => Len(sav.saved) <= MaxSavedReadings
              \* the liveness check and the histories
              /\ isHumanDetected' = isProbablyHuman
              /\ redData' = IF isProbablyHuman THEN Append(redData, frame.r) ELSE redData
              /\ greenData' = IF isProbablyHuman THEN Append(greenData, frame.g)
                              ELSE greenData
              /\ blueData' = IF isProbablyHuman THEN Append(blueData, frame.b)
                             ELSE blueData
              /\ signal' = IF isProbablyHuman THEN Append(signal, frame.g) ELSE signal
              /\ processedSignal' = IF isProbablyHuman /\ est.run THEN est.processed
                                    ELSE processedSignal
              \* the estimate, then finishMeasurement (the later set wins)
              /\ heartRate' = IF simulated THEN sim.heartRate
                              ELSE IF averaged THEN AverageHR(e.measurements)
                              ELSE IF accepted THEN est.filteredHR
                              ELSE heartRate
              /\ measurements' = IF simulated THEN sim.measurements
                                 ELSE IF accepted THEN Append(measurements, est.filteredHR)
                                 ELSE measurements
              /\ oxygenLevel' = IF simulated THEN sim.oxygenLevel
                                ELSE IF averaged /\ ~Truthy(e.oxygenLevel)
                                     THEN RAdd(RFloor(RMul(rndO2, R(3))), R(96))
                                ELSE IF accepted /\ est.oxygenEstimate # NULL
                                     THEN est.oxygenEstimate
                                ELSE oxygenLevel
              /\ confidence' = IF accepted THEN est.confidence ELSE confidence
              /\ fingerprintDetected' = IF accepted THEN est.fingerprintDetected
                                        ELSE fingerprintDetected
              \* the elapsed time
              /\ timeElapsed' = R(elapsed)
              /\ measurementProgress' = ProgressPercent(elapsed)
              /\ calibrating' = IF finishing THEN FALSE
                                ELSE IF e.calibrating /\ elapsed >= CALIBRATION_TIME
                                     THEN FALSE
                                ELSE calibrating
              \* finishMeasurement
              /\ isMeasuring' = IF finishing THEN FALSE ELSE isMeasuring
              /\ error' = IF finishing THEN "none" ELSE error
              /\ showingResults' = IF finishing THEN TRUE ELSE showingResults
              /\ intervalRef' = IF finishing THEN 0 ELSE intervalRef
              /\ timers' = IF finishing /\ intervalRef # 0 THEN ClearInterval(intervalRef)
                           ELSE timers
              /\ heartRateHistory' = IF simulated THEN sim.hist
                                     ELSE IF averaged THEN sav.hist ELSE heartRateHistory
              /\ oxygenHistory' = IF simulated THEN sim.ohist
                                  ELSE IF averaged THEN sav.ohist ELSE oxygenHistory
              /\ savedReadings' = IF simulated THEN sim.saved
                                  ELSE IF averaged THEN sav.saved ELSE savedReadings
              /\ insightCalls' = IF averaged THEN fetchInsights(e, insightCalls)
                                 ELSE IF simulated /\ Truthy(e.heartRate)
                                      THEN insightCalls \cup {InsightCall(e, 0)}
                                 ELSE insightCalls
              /\ isLoadingInsights' = IF averaged /\ Truthy(e.heartRate) THEN TRUE
                                      ELSE isLoadingInsights
              /\ UNCHANGED << isStarted, loading, healthInsights, healthScore,
                              personalizedTips, patternAnalysis, trendingIndicator,
                              measurementStartTime, cameraRequests, envVars >>

(***************************************************************************)
(* fetchInsights after its start: the timeout and the three awaited calls   *)
(***************************************************************************)
InsightScores == {R(82)}
TrendDirections == {"improving", "declining", "stable"}

insightFrame == << flagVars, resultVars, bufferVars, progressVars, historyVars, refVars,
                   cameraRequests, envVars >>

\* The 200 ms timeout of generateSimulatedResult fires.
InsightsTimeout(c) ==
    /\ c \in insightCalls /\ c.stage = 0
    /\ insightCalls' = (insightCalls \ {c}) \cup {[c EXCEPT !.stage = 1]}
    /\ isLoadingInsights' = TRUE
    /\ UNCHANGED << healthInsights, healthScore, personalizedTips, patternAnalysis,
                    trendingIndicator, insightFrame >>

\* The awaited call of stage c.stage resolves.
InsightsResolve(c) ==
    /\ c \in insightCalls /\ c.stage \in 1..3
    /\ \E score \in InsightScores, direction \in TrendDirections :
          LET last == c.stage = 3 \/ (c.stage = 2 /\ ~(c.historyLength > 5))
          IN  /\ insightCalls' = IF last THEN insightCalls \ {c}
                                 ELSE (insightCalls \ {c}) \cup
                                      {[c EXCEPT !.stage = c.stage + 1]}
              /\ isLoadingInsights' = IF last THEN FALSE ELSE isLoadingInsights
              /\ healthInsights' = IF c.stage = 1
                                   THEN [heartRate |-> c.heartRate,
                                         oxygenLevel |-> c.oxygenLevel]
                                   ELSE healthInsights
              /\ healthScore' = IF c.stage = 1 THEN score ELSE healthScore
              /\ personalizedTips' = IF c.stage = 2
                                     THEN [heartRate |-> c.heartRate,
                                           oxygenLevel |-> c.oxygenLevel]
                                     ELSE personalizedTips
              /\ patternAnalysis' = IF c.stage = 3
                                    THEN [historyLength |-> c.historyLength]
                                    ELSE patternAnalysis
              /\ trendingIndicator' = IF c.stage = 3
                                      THEN (IF direction = "improving" THEN "up"
                                            ELSE IF direction = "declining" THEN "down"
                                            ELSE "stable")
                                      ELSE trendingIndicator
    /\ UNCHANGED insightFrame

\* The awaited call rejects: the catch block, then finally.
InsightsReject(c) ==
    /\ c \in insightCalls /\ c.stage \in 1..3
    /\ insightCalls' = insightCalls \ {c}
    /\ isLoadingInsights' = FALSE
    /\ UNCHANGED << healthInsights, healthScore, personalizedTips, patternAnalysis,
                    trendingIndicator, insightFrame >>

Next ==
    \/ ClickInitialize
    \/ \E c \in cameraRequests : CameraGranted(c)
    \/ \E c \in cameraRequests : CameraDenied(c)
    \/ ClickMeasure
    \/ ClickReset
    \/ \E t \in timers : Tick(t)
    \/ stopMeasurement
    \/ ClockAdvance
    \/ \E c \in insightCalls : InsightsTimeout(c)
    \/ \E c \in insightCalls : InsightsResolve(c)
    \/ \E c \in insightCalls : InsightsReject(c)

Spec == Init /\ [][Next]_vars

(***************************************************************************)
(* enhancedPeakDetection on its own                                        *)
(***************************************************************************)
\* The inputs: 13 samples, flat but for a beat of height 9 at index 2 and a
\* second beat of height h at index p with shoulders a and b; and an input
\* too short to be scanned.
PeakLen == 13
PeakPositions == {8, 9, 10}
PeakShoulders == 0..2
PeakHeights == {8, 9}
PeakInput(p, a, b, h) ==
    [k \in 1..PeakLen |->
        R(IF k - 1 = 2 THEN 9
          ELSE IF k - 1 = p - 1 THEN a
          ELSE IF k - 1 = p THEN h
          ELSE IF k - 1 = p + 1 THEN b
          ELSE 0)]
\* The same with the first beat leaning to the right (the sample after it is
\* s), so that its refined position lies after index 2.
SkewedInput(s, p, h) ==
    [k \in 1..PeakLen |->
        R(IF k - 1 = 2 THEN 9 ELSE IF k - 1 = 3 THEN s ELSE IF k - 1 = p THEN h ELSE 0)]
PeakInputs ==
    {PeakInput(p, a, b, h) : p \in PeakPositions, a \in PeakShoulders,
                             b \in PeakShoulders, h \in PeakHeights}
        \cup {SkewedInput(s, p, h) : s \in {1, 2}, p \in {9, 10}, h \in PeakHeights}
        \cup {[k \in 1..9 |-> R(IF k = 5 THEN 9 ELSE 0)]}

InitPeak ==
    /\ InitComponent
    /\ scene = 9
    /\ call \in {[fn |-> "enhancedPeakDetection", data |-> d] : d \in PeakInputs}
    /\ result = Pending

\* The call returns.
ApplyPeakDetection ==
    /\ call.fn = "enhancedPeakDetection" /\ ~result.done
    /\ result' = Returned(enhancedPeakDetection(call.data))
    /\ UNCHANGED << flagVars, resultVars, bufferVars, progressVars, historyVars,
                    insightVars, refVars, asyncVars, now, sessions, initializations,
                    scene, call >>

NextPeak == ApplyPeakDetection

SpecPeak == InitPeak /\ [][NextPeak]_vars

(***************************************************************************)
(* One session left to itself: the monitor is started, the camera is       *)
(* granted, the timer fires and the clock advances; nobody cancels         *)
(***************************************************************************)
InitSession ==
    /\ InitComponent
    /\ scene \in PulsePeriods \cup {NoContext}
    /\ call = NoCall /\ result = Pending

\* Some timer fires.
TimerFires == \E t \in timers : Tick(t)

NextSession ==
    \/ ClickInitialize
    \/ \E c \in cameraRequests : CameraGranted(c)
    \/ TimerFires
    \/ ClockAdvance

\* setInterval keeps calling the callback and Date.now() keeps growing.
SpecSession ==
    InitSession /\ [][NextSession]_vars /\ WF_vars(TimerFires) /\ WF_vars(ClockAdvance)

(***************************************************************************)
(* Properties                                                              *)
(***************************************************************************)
\* C1: the positions enhancedPeakDetection returns (refined by
\* refinePeakLocation) are strictly increasing and any two of them are at
\* least 8 samples apart.
C1_PeaksSeparated ==
    (call.fn = "enhancedPeakDetection" /\ result.done) =>
        \A i \in 1..Len(result.value) : \A j \in 1..Len(result.value) :
            i < j => /\ RLt(result.value[i], result.value[j])
                     /\ RGe(RSub(result.value[j], result.value[i]), R(minPeakDistance))

\* A step of an interval callback, and the time it reads.
TickStep == \E t \in timers : Tick(t)
Elapsed == now - measurementStartTime
\* x is a whole number of beats per minute between 40 and 220.
IsBpm(x) == x # NULL /\ IsFinite(x) /\ x.d = 1 /\ x.n >= 40 /\ x.n <= 220

\* C2: every value in the measurements list, and every heart rate held, is a
\* whole number with 40 <= bpm <= 220; and a tick whose instantaneous rate is
\* outside [40, 220] stores nothing (it leaves the list and the heart rate as
\* they are unless it is the tick that finishes the session).
C2_StoredRatesPlausible ==
    /\ [](\A k \in 1..Len(measurements) : IsBpm(measurements[k]))
    /\ [](heartRate # NULL => IsBpm(heartRate))
    /\ [][\A t \in timers :
            (/\ Tick(t)
             /\ t.estimate.calculatedHR # NULL
             /\ \/ RLt(t.estimate.calculatedHR, R(40))
                \/ RGt(t.estimate.calculatedHR, R(220))
             /\ Elapsed < MEASUREMENT_TIME)
            => (measurements' = measurements /\ heartRate' = heartRate)]_vars

\* C2 happens: a running session whose ticks have appended estimates, the
\* heart rate being the latest of them.
C2_Witness ==
    /\ isMeasuring
    /\ Len(measurements) >= 2
    /\ heartRate = measurements[Len(measurements)]

\* C3: when the tick at the 15-second mark ends a session in which no
\* estimate was accepted (the last tick failing the liveness check too), the
\* session ends with a heart rate that is a whole number in [65, 85) and an
\* oxygen level that is a whole number in [96, 99).
C3_FallbackWhenNoEstimate ==
    [][(/\ isMeasuring
        /\ TickStep
        /\ Elapsed >= MEASUREMENT_TIME
        /\ Len(measurements) = 0
        /\ ~isHumanDetected')
       => (/\ ~isMeasuring'
           /\ heartRate' # NULL /\ heartRate'.d = 1
           /\ heartRate'.n >= 65 /\ heartRate'.n < 85
           /\ oxygenLevel' # NULL /\ oxygenLevel'.d = 1
           /\ oxygenLevel'.n >= 96 /\ oxygenLevel'.n < 99)]_vars

\* C4: when the tick at the 15-second mark ends a session in which n >= 2
\* estimates were accepted (the last tick adding none), the final heart rate
\* is the rounded mean of the last min(5, n) of them.
C4_AverageOfAccepted ==
    [][(/\ isMeasuring
        /\ TickStep
        /\ Elapsed >= MEASUREMENT_TIME
        /\ Len(measurements) >= 2
        /\ ~isHumanDetected')
       => (/\ ~isMeasuring'
           /\ heartRate' = RRound(Mean(SliceLast(measurements, 5))))]_vars

\* C5: after any tick of a running session with 5 s <= elapsed < 15 s,
\* calibrating is false and isMeasuring is still true.
C5_CalibrationEndsAtFive ==
    [][(/\ isMeasuring
        /\ TickStep
        /\ Elapsed >= CALIBRATION_TIME
        /\ Elapsed < MEASUREMENT_TIME)
       => (~calibrating' /\ isMeasuring')]_vars

\* What a tick whose sample fails the liveness check is said to do.
DeadTick == TickStep /\ ~isHumanDetected'
DeadTickEffect ==
    /\ UNCHANGED << redData, greenData, blueData, signal, processedSignal,
                    measurements, heartRate, oxygenLevel, confidence >>
    /\ timeElapsed' = R(Elapsed)
    /\ measurementProgress' = RMin(R(100), Q(Elapsed * 100, MEASUREMENT_TIME))

\* C6 as stated: every tick whose sample fails the liveness check leaves the
\* histories, the processed signal, the measurements, the heart rate, the
\* oxygen level and the confidence unchanged, and sets timeElapsed and
\* measurementProgress from the session start time.
C6_DeadTickLeavesData == [][DeadTick => DeadTickEffect]_vars

\* C6 amended: the same, for a tick before the 15-second mark (the tick at
\* the mark goes on to finish the session, which sets the results).
C6_DeadTickBeforeFinish ==
    [][(DeadTick /\ Elapsed < MEASUREMENT_TIME) => DeadTickEffect]_vars

\* C6 happens: a dead tick at 5 s in a session that holds samples.
C6_Witness ==
    /\ isMeasuring
    /\ ~isHumanDetected
    /\ timeElapsed = R(CALIBRATION_TIME)
    /\ Len(signal) >= 2

\* C7: stopMeasurement cancels the session's tick timer, sets isMeasuring and
\* calibrating to false without the finish path (no results shown, heart rate
\* and measurements untouched), and appends exactly one saved reading, with
\* the current heart rate, if there is one, and none otherwise.
C7_CancelSavesLastRate ==
    [][stopMeasurement =>
        /\ \A t \in timers' : t.id # intervalRef
        /\ intervalRef' = 0
        /\ ~isMeasuring' /\ ~calibrating'
        /\ UNCHANGED << showingResults, heartRate, oxygenLevel, measurements >>
        /\ IF heartRate # NULL
           THEN /\ Len(savedReadings') = Len(savedReadings) + 1
                /\ SubSeq(savedReadings', 1, Len(savedReadings)) = savedReadings
                /\ savedReadings'[Len(savedReadings')].heartRate = heartRate
           ELSE savedReadings' = savedReadings]_vars

\* C7 happens: a session with accepted estimates was cancelled and its last
\* heart rate saved.
C7_Witness ==
    /\ ~isMeasuring /\ ~showingResults /\ intervalRef = 0
    /\ Len(measurements) >= 2
    /\ Len(savedReadings) = 3
    /\ savedReadings[3].heartRate = heartRate
    /\ heartRate = measurements[Len(measurements)]

\* C8: at most one tick timer is active, and none once the session has
\* finished or been cancelled.
C8_AtMostOneTimer ==
    /\ Cardinality(timers) <= 1
    /\ ~isMeasuring => timers = {}

\* C9: once a session has ended (by finish or by cancel) the per-session
\* buffers are empty.
C9_BuffersCleared ==
    (sessions > 0 /\ ~isMeasuring) =>
        /\ redData = << >> /\ greenData = << >> /\ blueData = << >>
        /\ signal = << >> /\ processedSignal = << >>
        /\ measurements = << >>

\* The filter state after k updates with the same measurement and confidence.
RECURSIVE FilterChain(_, _, _, _)
FilterChain(state, m, u, k) ==
    IF k = 0 THEN state
    ELSE FilterChain(KalmanUpdate(state, m, u), m, u, k - 1)

\* C10: the second accepted measurement of a session is filtered from the
\* state the first update left: with the state reset to (75, 100) at the
\* session start, the value stored is the rounded estimate after two updates.
C10_FilterStatePersists ==
    [][\A t \in timers :
          (/\ isMeasuring
           /\ timers = {t}
           /\ Tick(t)
           /\ t.estimate.accepted
           /\ isHumanDetected'
           /\ Elapsed < MEASUREMENT_TIME
           /\ Len(measurements) = 1)
          => measurements'[2] =
                RRound(FilterChain([estimate |-> R(75), errorCovariance |-> R(100)],
                                   t.estimate.calculatedHR, t.env.confidence,
                                   2).estimate)]_vars

(***************************************************************************)
(* kalmanFilterHeartRate over the ticks of one session                     *)
(***************************************************************************)
\* The accepted measurements one session's callback files: at most this many.
MaxFilterTicks == 3
\* The heartRate and confidence of the render in which the session started,
\* and the rate every tick of the session measures.
FilterPriors == {NULL, R(60), R(150), R(200)}
FilterConfidences ==
    {R(0), R(50), R(100)}
    \cup {RMul(calculateSignalQuality([k \in 1..24 |->
                   IF k - 1 \in {2, 11, 21} THEN R(h) ELSE R(0)]), R(100)) :
            h \in {0, 100}}
FilterMeasurements == {R(40), R(100), R(200), R(220)}

\* The filter call of a session's callback: it reads the heartRate and the
\* confidence of the closure, so every tick of the session that measures m
\* computes the same filteredHR.
FilterCall(hr, m, conf) ==
    [fn |-> "kalmanFilterHeartRate", heartRate |-> hr, newMeasurement |-> m,
     uncertainty |-> conf, filteredHR |-> kalmanFilterHeartRate(hr, m, conf)]

InitFilter ==
    /\ isStarted = TRUE /\ loading = FALSE /\ error = "none"
    /\ isMeasuring = TRUE /\ calibrating = TRUE /\ showingResults = FALSE
    /\ heartRate \in FilterPriors /\ oxygenLevel = NULL
    /\ confidence \in FilterConfidences
    /\ measurements = << >>
    /\ signal = << >> /\ processedSignal = << >>
    /\ redData = << >> /\ greenData = << >> /\ blueData = << >>
    /\ timeElapsed = R(0) /\ measurementProgress = R(0)
    /\ isHumanDetected = FALSE /\ fingerprintDetected = FALSE
    /\ heartRateHistory = SampleHistory /\ oxygenHistory = SampleOxygenHistory
    /\ savedReadings = SampleSavedReadings
    /\ isLoadingInsights = FALSE /\ healthInsights = NULL /\ healthScore = R(75)
    /\ personalizedTips = NULL /\ patternAnalysis = NULL /\ trendingIndicator = "stable"
    /\ intervalRef = 0 /\ measurementStartTime = NoTime /\ timers = {}
    /\ cameraRequests = {} /\ insightCalls = {}
    /\ now = 0 /\ sessions = 1 /\ initializations = 1
    /\ scene = 9
    /\ call \in {FilterCall(heartRate, m, confidence) : m \in FilterMeasurements}
    /\ result = Pending

\* One run of the callback that accepts the rate call.newMeasurement: the
\* value of the filter is appended to measurements and stored as heartRate.
FilterTick ==
    /\ call.fn = "kalmanFilterHeartRate"
    /\ Len(measurements) < MaxFilterTicks
    /\ measurements' = Append(measurements, call.filteredHR)
    /\ heartRate' = call.filteredHR
    /\ result' = Returned(call.filteredHR)
    /\ UNCHANGED << flagVars, oxygenLevel, confidence, bufferVars, progressVars,
                    historyVars, insightVars, refVars, asyncVars, now, sessions,
                    initializations, scene, call >>

NextFilter == FilterTick

\* The interval timer keeps firing while the session runs.
SpecFilter == InitFilter /\ [][NextFilter]_vars /\ WF_vars(FilterTick)

ConstantChannel(len, c) == [k \in 1..len |-> R(c)]
PulsingChannel(len, period, high, low) ==
    [k \in 1..len |-> R(IF k % period = 3 THEN high ELSE low)]

\* The shortest histories the estimator accepts, and the shortest whose
\* baseline window (a quarter of the length) is a multiple of three.
ShortestHistory == 30
AlignedHistory == 36
ChannelHistories(len) ==
    IF len = ShortestHistory
    THEN {ConstantChannel(len, 0), ConstantChannel(len, 20),
          PulsingChannel(len, 9, 10, 1), PulsingChannel(len, 8, 30, 20)}
    ELSE {ConstantChannel(len, 0), ConstantChannel(len, 50), ConstantChannel(len, 100),
          [k \in 1..len |-> R(IF k > len \div 2 THEN 100 ELSE 0)]}

OxygenCalls ==
    {[fn |-> "enhancedOxygenEstimation", redData |-> r, greenData |-> g, blueData |-> b] :
        r \in ChannelHistories(ShortestHistory), g \in ChannelHistories(ShortestHistory),
        b \in ChannelHistories(ShortestHistory)}
    \cup
    {[fn |-> "enhancedOxygenEstimation", redData |-> r, greenData |-> g, blueData |-> b] :
        r \in ChannelHistories(AlignedHistory), g \in ChannelHistories(AlignedHistory),
        b \in ChannelHistories(AlignedHistory)}

InitOxygen ==
    /\ InitComponent
    /\ scene = 9
    /\ call \in OxygenCalls
    /\ result = Pending

\* The call returns and the callback stores what is not null.
ApplyOxygenEstimation ==
    /\ call.fn = "enhancedOxygenEstimation" /\ ~result.done
    /\ LET oxygenEstimate ==
               enhancedOxygenEstimation(call.redData, call.greenData, call.blueData)
       IN  /\ result' = Returned(oxygenEstimate)
           /\ oxygenLevel' = IF oxygenEstimate # NULL THEN oxygenEstimate ELSE oxygenLevel
    /\ UNCHANGED << flagVars, heartRate, confidence, measurements, bufferVars,
                    progressVars, historyVars, insightVars, refVars, asyncVars, now,
                    sessions, initializations, scene, call >>

NextOxygen == ApplyOxygenEstimation

SpecOxygen == InitOxygen /\ [][NextOxygen]_vars

\* x is a whole percentage between 85 and 100.
IsPercent(x) == x # NULL /\ IsFinite(x) /\ x.d = 1 /\ x.n >= 85 /\ x.n <= 100

\* C12: for histories of at least 30 samples per channel, constant channels
\* included, enhancedOxygenEstimation returns a whole percentage in [85,100],
\* and so is the oxygen level the callback stores.
C12_OxygenInRange ==
    (call.fn = "enhancedOxygenEstimation" /\ result.done) =>
        IsPercent(result.value) /\ IsPercent(oxygenLevel)

(***************************************************************************)
(* The pure functions of the component, each called on its own             *)
(***************************************************************************)
\* Pulsatility indices and quality scores of the three conditioned channels.
PulsatilityIndices == {R(0), Q(3, 10), Q(2, 5), Q(3, 5)}
QualityScores == {R(0), Q(1, 5), R(1)}
\* Averaged colours of a frame.
ColourValues == {R(0), R(1), Q(13, 10), R(50), R(100), R(130), R(180), R(200)}
\* Raw channel sequences: one sample short of the conditioner's minimum, at
\* the minimum, and the shortest whose baseline window is a multiple of three.
ConditionerLengths == {19, 20, 24}
RawChannels ==
    UNION {{ConstantChannel(len, 0), ConstantChannel(len, 50),
            PulsingChannel(len, 9, 10, 1), PulsingChannel(len, 8, 30, 20),
            PulsingChannel(len, 5, 200, 100)} : len \in ConditionerLengths}
\* What normalizeSignal is handed: short sequences, and the baseline-corrected
\* channels of the conditioner.
NormalizeInputs ==
    {<< >>, << R(7) >>, << R(5), R(5), R(5) >>, << R(1), R(2), R(3) >>,
     << R(-5), R(0), R(20), R(20) >>, << Q(3, 2), Q(1, 3) >>, << R(1), NaN, R(3) >>}
    \cup {removeBaselineWander(applySavitzkyGolayFilter(d, 5, 3)) : d \in RawChannels}
Sensitivities == {"low", "medium", "high"}
\* A channel that is `low` but for the value `high` at the indices `beats`.
BeatChannel(len, beats, high, low) ==
    [k \in 1..len |-> R(IF (k - 1) \in beats THEN high ELSE low)]
\* What removeBaselineWander is handed: channels whose window is 2 (too
\* short to correct), 3, 4, 5 and 6 samples.
BaselineLengths == {11, 12, 16, 20, 24}
BaselineInputs ==
    UNION {{ConstantChannel(len, 50), PulsingChannel(len, 9, 10, 1),
            PulsingChannel(len, 5, 200, 100)} : len \in BaselineLengths}
\* What calculateSignalQuality is handed: raw channels, the conditioned
\* channels of 20 samples, and channels with beats at uneven distances, of
\* small and of large amplitude.
QualityInputs ==
    RawChannels
    \cup {applyAdvancedSignalProcessing(d) : d \in {c \in RawChannels : Len(c) = 20}}
    \cup {BeatChannel(24, {2, 11, 21}, 10, 1), BeatChannel(24, {2, 11, 21}, 100, 0),
          BeatChannel(24, {2, 11, 20}, 60, 50), BeatChannel(24, {2, 10, 21}, 10, 1)}
\* Heart rates and profiles for the zone; the component's own profile is the
\* first.
ZoneRates ==
    {NULL} \cup {R(n) : n \in {1, 40, 75, 94, 95, 96, 113, 114, 132, 133, 151, 152,
                               170, 171, 190, 220}}
HealthProfiles ==
    {[age |-> R(30), maxHR |-> R(190)], [age |-> R(60), maxHR |-> R(150)],
     [age |-> R(20), maxHR |-> NULL], [age |-> R(30), maxHR |-> NULL],
     [age |-> R(60), maxHR |-> NULL], [age |-> NULL, maxHR |-> NULL]}

PureCalls ==
    {[fn |-> "spO2", redPI |-> r, greenPI |-> g, bluePI |-> b,
      redQuality |-> qr, greenQuality |-> qg, blueQuality |-> qb] :
        r \in PulsatilityIndices, g \in PulsatilityIndices, b \in PulsatilityIndices,
        qr \in QualityScores, qg \in QualityScores, qb \in QualityScores}
    \cup {[fn |-> "verifyHumanFingerprint", redVal |-> r, greenVal |-> g, blueVal |-> b] :
            r \in ColourValues, g \in ColourValues, b \in ColourValues}
    \cup {[fn |-> "normalizeSignal", data |-> d] : d \in NormalizeInputs}
    \cup {[fn |-> "applyAdvancedSignalProcessing", data |-> d] : d \in RawChannels}
    \cup {[fn |-> "processPPG", data |-> d, sensitivity |-> s] :
            d \in RawChannels, s \in Sensitivities}
    \cup {[fn |-> "getHeartRateZone", hr |-> h, healthProfile |-> p] :
            h \in ZoneRates, p \in HealthProfiles}
    \cup {[fn |-> "calculateSignalQuality", data |-> d] : d \in QualityInputs}
    \cup {[fn |-> "removeBaselineWander", data |-> d] : d \in BaselineInputs}

\* What the call returns.  processPPG is called by the callback after it has
\* worked out the window size of the sensitivity setting.
CallValue(c) ==
    CASE c.fn = "spO2" ->
           CombineOxygen(c.redPI, c.greenPI, c.bluePI,
                         c.redQuality, c.greenQuality, c.blueQuality)
      [] c.fn = "verifyHumanFingerprint" ->
           verifyHumanFingerprint(c.redVal, c.greenVal, c.blueVal)
      [] c.fn = "normalizeSignal" -> normalizeSignal(c.data)
      [] c.fn = "applyAdvancedSignalProcessing" -> applyAdvancedSignalProcessing(c.data)
      [] c.fn = "processPPG" -> processPPG(c.data)
      [] c.fn = "getHeartRateZone" -> getHeartRateZone(c.hr, c.healthProfile)
      [] c.fn = "calculateSignalQuality" -> calculateSignalQuality(c.data)
      [] c.fn = "removeBaselineWander" -> removeBaselineWander(c.data)

InitCalls ==
    /\ InitComponent
    /\ scene = 9
    /\ call \in PureCalls
    /\ result = Pending

ApplyCall ==
    /\ call \in PureCalls /\ ~result.done
    /\ result' = Returned(CallValue(call))
    /\ UNCHANGED << flagVars, resultVars, bufferVars, progressVars, historyVars,
                    insightVars, refVars, asyncVars, now, sessions, initializations,
                    scene, call >>

NextCalls == ApplyCall

SpecCalls == InitCalls /\ [][NextCalls]_vars

\* clamp(x, lo, hi)
Clamp(x, lo, hi) == IF RLt(x, lo) THEN lo ELSE IF RGt(x, hi) THEN hi ELSE x

\* The documented estimate of a call c of the combination.
DocumentedOxygen(c) ==
    LET wGreen == RMul(c.redQuality, c.greenQuality)
        wBlue == RMul(c.redQuality, c.blueQuality)
        byGreen == RSub(R(110), RDiv(RMul(R(25), c.redPI), c.greenPI))
        byBlue == RSub(R(104), RDiv(RMul(R(17), c.redPI), c.bluePI))
    IN  Clamp(RRound(RDiv(RAdd(RMul(byGreen, wGreen), RMul(byBlue, wBlue)),
                          RAdd(wGreen, wBlue))),
              R(85), R(100))

\* The documented example: indices 0.6, 0.4, 0.3 and equal qualities.
IsOxygenExample(c) ==
    /\ c.fn = "spO2"
    /\ c.redPI = Q(3, 5) /\ c.greenPI = Q(2, 5) /\ c.bluePI = Q(3, 10)
    /\ c.redQuality = c.greenQuality /\ c.greenQuality = c.blueQuality

\* C13: with a positive total weight the oxygen estimate is
\* clamp(round(((110 - 25 redPI/greenPI) qRed qGreen + (104 - 17 redPI/bluePI)
\* qRed qBlue) / (qRed qGreen + qRed qBlue)), 85, 100), and for the indices
\* 0.6, 0.4, 0.3 with equal qualities it lies in [85,100].
C13_OxygenFormula ==
    (/\ call.fn = "spO2" /\ result.done
     /\ RGt(RAdd(RMul(call.redQuality, call.greenQuality),
                 RMul(call.redQuality, call.blueQuality)), R(0)))
    => /\ result.value = DocumentedOxygen(call)
       /\ IsOxygenExample(call) => IsPercent(result.value)

C13_Witness ==
    /\ IsOxygenExample(call) /\ call.redQuality = R(1)
    /\ result.done /\ result.value = R(85)

\* The documented liveness rule on the colours of a call c.
DocumentedLive(c) ==
    /\ RGt(c.redVal, c.greenVal) /\ RGt(c.redVal, c.blueVal)
    /\ RGt(c.greenVal, c.blueVal)
    /\ RGt(RMul(R(10), c.redVal),
           RMul(R(13), IF c.blueVal = R(0) THEN R(1) ELSE c.blueVal))

\* C14: verifyHumanFingerprint(r, g, b) is true exactly when r > g, r > b,
\* g > b and r / (b, or 1 when b is 0) > 1.3; (200,100,50) is live,
\* (100,100,100) and (200,50,180) are not.
C14_LivenessRule ==
    (call.fn = "verifyHumanFingerprint" /\ result.done) =>
        /\ result.value = DocumentedLive(call)
        /\ (call.redVal = R(200) /\ call.greenVal = R(100) /\ call.blueVal = R(50))
              => result.value = TRUE
        /\ (call.redVal = R(100) /\ call.greenVal = R(100) /\ call.blueVal = R(100))
              => result.value = FALSE
        /\ (call.redVal = R(200) /\ call.greenVal = R(50) /\ call.blueVal = R(180))
              => result.value = FALSE

C14_Witness ==
    /\ call.fn = "verifyHumanFingerprint"
    /\ call.redVal = R(200) /\ call.greenVal = R(100) /\ call.blueVal = R(50)
    /\ result.done /\ result.value = TRUE

\* The sequence is constant; all its elements are finite numbers; its least
\* and greatest elements are lo and hi.
IsConstant(data) == \A i \in 1..Len(data) : data[i] = data[1]
AllFinite(data) == \A i \in 1..Len(data) : IsFinite(data[i])
SpansExactly(data, lo, hi) ==
    /\ \E i \in 1..Len(data) : data[i] = lo
    /\ \E i \in 1..Len(data) : data[i] = hi
    /\ \A i \in 1..Len(data) : RGe(data[i], lo) /\ RLe(data[i], hi)

\* What normalizeSignal is documented to return for the data of the call.
NormalizedAsDocumented ==
    IF IsConstant(call.data)
    THEN result.value = [k \in 1..Len(call.data) |-> R(50)]
    ELSE /\ Len(result.value) = Len(call.data)
         /\ SpansExactly(result.value, R(10), R(90))

C16_ConditionedInRange ==
    (call.fn = "applyAdvancedSignalProcessing" /\ result.done /\ Len(call.data) >= 20)
        => /\ Len(result.value) = Len(call.data)
           /\ \A k \in 1..Len(result.value) :
                 /\ IsFinite(result.value[k])
                 /\ RGe(result.value[k], R(10)) /\ RLe(result.value[k], R(90))

\* The conditioned signal smoothed with a window of the given size.
ConditionedWith(windowSize, data) ==
    IF Len(data) < 20 THEN data
    ELSE normalizeSignal(removeBaselineWander(applySavitzkyGolayFilter(data, windowSize, 3)))

\* C17: the signal a tick conditions is smoothed with the window of the
\* sensitivity in force: 7 for low, 5 for medium, 3 for high.
C17_WindowBySensitivity ==
    (call.fn = "processPPG" /\ result.done) =>
        result.value =
            ConditionedWith(CASE call.sensitivity = "low" -> 7
                              [] call.sensitivity = "medium" -> 5
                              [] call.sensitivity = "high" -> 3,
                            call.data)

\* The documented zone of h beats per minute for a maximum rate m > 0.
DocumentedZone(h, m) ==
    IF 100 * h < 50 * m THEN "Rest"
    ELSE IF 100 * h < 60 * m THEN "Very Light"
    ELSE IF 100 * h < 70 * m THEN "Light"
    ELSE IF 100 * h < 80 * m THEN "Moderate"
    ELSE IF 100 * h < 90 * m THEN "Hard"
    ELSE "Maximum"

\* C20: for hr > 0, with maxHR the configured baseline if there is one and
\* 220 - age otherwise, getHeartRateZone returns the zone of 100 hr / maxHR by
\* the thresholds 50, 60, 70, 80 and 90.
C20_ZoneThresholds ==
    (/\ call.fn = "getHeartRateZone" /\ result.done
     /\ call.hr # NULL /\ call.hr.n > 0
     /\ call.healthProfile.maxHR # NULL \/ call.healthProfile.age # NULL)
    => result.value =
          DocumentedZone(call.hr.n,
                         IF call.healthProfile.maxHR # NULL
                         THEN call.healthProfile.maxHR.n
                         ELSE 220 - call.healthProfile.age.n)

C20_Witness ==
    /\ call.fn = "getHeartRateZone" /\ result.done
    /\ call.hr = R(133) /\ call.healthProfile = [age |-> R(60), maxHR |-> NULL]
    /\ result.value = "Hard"

\* C18: a fetchInsights response that arrives while a session is running (a
\* session started after the one the call was made for; calls are only made
\* when no session runs) is discarded: it changes none of healthInsights,
\* healthScore, personalizedTips, patternAnalysis and trendingIndicator.
C18_LateInsightsDiscarded ==
    [][\A c \in insightCalls :
          (isMeasuring /\ InsightsResolve(c)) =>
              UNCHANGED << healthInsights, healthScore, personalizedTips,
                           patternAnalysis, trendingIndicator >>]_vars

\* startMeasurement runs without the video or canvas element; the camera is
\* refused.
StartWithoutFrameSource ==
    ~RefsMounted /\ (ClickMeasure \/ \E c \in cameraRequests : CameraGranted(c))
CameraFailure == \E c \in cameraRequests : CameraDenied(c)

\* C19: when no frame can be acquired (the camera is refused, or
\* startMeasurement finds no video or canvas element) an error is set, no
\* timer is started, and no heart rate and no saved reading are produced.
C19_AcquisitionFailureIsError ==
    [][(StartWithoutFrameSource \/ CameraFailure) =>
          /\ error' # "none"
          /\ timers' = timers
          /\ heartRate' = heartRate
          /\ savedReadings' = savedReadings]_vars


\* The documented quality of a sequence.
DocumentedQuality(data) ==
    IF Len(data) < 20 THEN R(0)
    ELSE LET peaks == enhancedPeakDetection(data)
             intervals == Intervals(peaks)
             cv == RDiv(RSqrt(Variance(intervals)), Mean(intervals))
             spread == RSub(ArrayMax(data), ArrayMin(data))
         IN  IF Len(peaks) < 2 THEN Q(1, 5)
             ELSE RAdd(RMul(Q(7, 10), Clamp(RSub(R(1), cv), R(0), R(1))),
                       RMul(Q(3, 10), Clamp(RDiv(spread, R(50)), R(0), R(1))))

InUnitRange(x) == RGe(x, R(0)) /\ RLe(x, R(1))

\* C21: calculateSignalQuality returns a value in [0,1]: 0 below 20 samples,
\* 0.2 with fewer than 2 peaks, otherwise
\* 0.7*clamp(1 - CV, 0, 1) + 0.3*clamp((max - min)/50, 0, 1); the confidence
\* a tick stores, 100 times the quality, is therefore in [0,100].
C21_QualityInUnitRange ==
    (call.fn = "calculateSignalQuality" /\ result.done) =>
        /\ InUnitRange(result.value)
        /\ result.value = DocumentedQuality(call.data)
        /\ RGe(RMul(result.value, R(100)), R(0))
        /\ RLe(RMul(result.value, R(100)), R(100))

\* Three beats at distances 9 and 10 and of amplitude 100: CV = 1/19, the
\* amplitude score is capped, the quality is 0.7*18/19 + 0.3 = 183/190.
C21_Witness ==
    /\ call.fn = "calculateSignalQuality" /\ result.done
    /\ call.data = BeatChannel(24, {2, 11, 21}, 100, 0)
    /\ result.value = Q(183, 190)


\* The rate, in beats per minute, of a pulse that beats once every `period`
\* frames at 30 frames per second.
PulseRate(period) == Q(60 * samplingRate, period)

RECURSIVE DocumentedScan(_, _, _)
DocumentedScan(data, i, accepted) ==
    IF i > Len(data) - 3 THEN accepted
    ELSE LET x == At(data, i)
             candidate ==
                 /\ ExceedsAdaptiveThreshold(x, Mean(data), Variance(data))
                 /\ \A k \in {-2, -1, 1, 2} : RGt(x, At(data, i + k))
             spaced ==
                 \A k \in 1..Len(accepted) : RGe(RAbs(RSub(accepted[k], R(i))), R(8))
         IN  DocumentedScan(data, i + 1,
                            IF candidate /\ spaced
                            THEN Append(accepted, refinePeakLocation(data, i))
                            ELSE accepted)

\* C23: enhancedPeakDetection returns the empty list below 10 samples;
\* otherwise it scans the indices in increasing order and accepts i exactly
\* when data[i] exceeds the adaptive threshold, is strictly greater than its
\* two neighbours on either side, and no peak accepted before lies within 8
\* samples of i; an accepted peak is never removed.
C23_PeakScanRule ==
    (call.fn = "enhancedPeakDetection" /\ result.done) =>
        result.value = IF Len(call.data) < 10 THEN << >>
                       ELSE DocumentedScan(call.data, 2, << >>)

\* A beat at index 2 refined to 2 + 1/16 and a candidate at index 10, which
\* is less than 8 samples from the refined position and is discarded.
C23_Witness ==
    /\ call.fn = "enhancedPeakDetection" /\ result.done
    /\ call.data = SkewedInput(2, 10, 9)
    /\ result.value = << Q(33, 16) >>


\* C24: every session that enters Measuring eventually ends (the timer
\* keeps firing, the clock advances, nobody cancels): isMeasuring becomes
\* false with the results shown and a heart rate set, whether or not a tick
\* had a usable canvas or passed the liveness check.
C24_SessionEnds ==
    isMeasuring ~> (~isMeasuring /\ showingResults /\ heartRate # NULL)


\* j is an element index of an array of `length` elements.
IsElementIndex(j, length) == IsFinite(j) /\ j.d = 1 /\ j.n >= 0 /\ j.n < length

\* C25: for an input of 12 samples or more (window = min(50, floor(length/4))
\* >= 3) and every interior index i, every index removeBaselineWander reads
\* is an integer in [0, length-1] and the divisor of the baseline is the
\* number of samples summed, so that the baseline is their mean and the
\* corrected samples of a finite input are finite.
C25_BaselineReadsInBounds ==
    (call.fn = "removeBaselineWander" /\ result.done /\ Len(call.data) >= 12) =>
        LET length == Len(call.data)
            windowSize == BaselineWindow(call.data)
        IN  /\ \A i \in windowSize..(length - windowSize - 1) :
                 LET reads == BaselineReads(windowSize, i)
                 IN  /\ \A k \in 1..Len(reads) : IsElementIndex(reads[k], length)
                     /\ BaselineDivisor(windowSize) = R(Len(reads))
            /\ AllFinite(result.value)


\* C26: when the tick at the 15-second mark ends a session in which 2 or
\* more estimates were accepted (the last tick adding none), exactly one
\* reading is appended to the heart-rate history and to the saved readings,
\* and it carries the final reported heart rate of the session, the rounded
\* mean of its last estimates.
C26_FinishSavesAveragedRate ==
    [][(/\ isMeasuring
        /\ TickStep
        /\ Elapsed >= MEASUREMENT_TIME
        /\ Len(measurements) >= 2
        /\ ~isHumanDetected')
       => (/\ ~isMeasuring'
           /\ Len(savedReadings') = Len(savedReadings) + 1
           /\ SubSeq(savedReadings', 1, Len(savedReadings)) = savedReadings
           /\ heartRateHistory' = Append(heartRateHistory, heartRate')
           /\ savedReadings'[Len(savedReadings')].heartRate = heartRate'
           /\ heartRate' = RRound(Mean(SliceLast(measurements, 5))))]_vars


\* C27: a reading saved by cancel carries a heart rate computed during the
\* session being cancelled: when no estimate was accepted in that session,
\* stopMeasurement saves no reading, even if an earlier session left a heart
\* rate behind.
C27_CancelSavesOwnRate ==
    [][(stopMeasurement /\ Len(measurements) = 0)
       => UNCHANGED << savedReadings, heartRateHistory, oxygenHistory >>]_vars


\* C28: the finish path runs at most once per session: once a session has
\* ended with its results shown, no later tick appends another reading or
\* changes the final heart rate or oxygen level.
C28_FinishRunsOnce ==
    [][(TickStep /\ ~isMeasuring /\ showingResults)
       => UNCHANGED << savedReadings, heartRateHistory, oxygenHistory,
                       heartRate, oxygenLevel >>]_vars


\* C29: on every call of kalmanFilterHeartRate made by a tick the confidence
\* passed is within [0, 100], so the measurement noise is >= 0, the gain
\* denominator is > 0, the gain is in (0, 1], and the returned value lies
\* between the prior estimate and the new measurement (inclusive).
C29_FilterCallWellConditioned ==
    call.fn = "kalmanFilterHeartRate" =>
        LET prior == KalmanPrior(call.heartRate)
            step == KalmanUpdate(prior, call.newMeasurement, call.uncertainty)
            measurementNoise == RSub(R(100), call.uncertainty)
            denominator == RAdd(RAdd(prior.errorCovariance, R(1)), measurementNoise)
        IN  /\ RGe(call.uncertainty, R(0)) /\ RLe(call.uncertainty, R(100))
            /\ RGe(measurementNoise, R(0))
            /\ RGt(denominator, R(0))
            /\ RGt(step.gain, R(0)) /\ RLe(step.gain, R(1))
            /\ RGe(call.filteredHR, RMin(prior.estimate, call.newMeasurement))
            /\ RLe(call.filteredHR, RMax(prior.estimate, call.newMeasurement))

\* A tick has filed the estimate 154 for the prior 60, the measurement 200
\* and the confidence 50: strictly between the two, gain 101/151.
C29_Witness ==
    /\ result = Returned(R(154))
    /\ call.heartRate = R(60) /\ call.newMeasurement = R(200)
    /\ call.uncertainty = R(50)
    /\ KalmanUpdate(KalmanPrior(R(60)), R(200), R(50)).gain = Q(101, 151)
    /\ heartRate = R(154) /\ Len(measurements) > 0


\* The conditioned last 100 samples of a channel, as the estimator scores them.
ScoredChannel(data) == applyAdvancedSignalProcessing(SliceLast(data, 100))

\* C30: whenever enhancedOxygenEstimation is given at least 30 samples per
\* channel, each channel's quality score is at least 0.2, so the total weight
\* qRed*qGreen + qRed*qBlue is strictly positive, and the estimate is the
\* weighted one, never the default taken when the total weight is 0.
C30_TotalWeightPositive ==
    (/\ call.fn = "enhancedOxygenEstimation"
     /\ Len(call.redData) >= 30 /\ Len(call.greenData) >= 30
     /\ Len(call.blueData) >= 30) =>
        LET redQuality == calculateSignalQuality(ScoredChannel(call.redData))
            greenQuality == calculateSignalQuality(ScoredChannel(call.greenData))
            blueQuality == calculateSignalQuality(ScoredChannel(call.blueData))
            totalWeight == RAdd(RMul(redQuality, greenQuality),
                                RMul(redQuality, blueQuality))
        IN  /\ RGe(redQuality, Q(1, 5)) /\ RGe(greenQuality, Q(1, 5))
            /\ RGe(blueQuality, Q(1, 5))
            /\ RGt(totalWeight, R(0))
            /\ result.done =>
                   /\ result.value # NULL
                   /\ (IsNaN(calculatePulsatilityIndex(ScoredChannel(call.redData)))
                          => result.value # R(97))

\* The estimator has returned for three 36-sample channels that step from 0
\* to 100: the conditioned channels are finite, each quality is 0.2, the total
\* weight 0.08, and the value is the weighted mean of 85 and 87, not 97.
C30_Witness ==
    /\ call.fn = "enhancedOxygenEstimation" /\ result.done
    /\ Len(call.redData) = 36 /\ call.redData[1] = R(0) /\ call.redData[36] = R(100)
    /\ call.greenData = call.redData /\ call.blueData = call.redData
    /\ calculateSignalQuality(ScoredChannel(call.redData)) = Q(1, 5)
    /\ ArrayMax(ScoredChannel(call.redData)) = R(90)
    /\ RAdd(RMul(Q(1, 5), Q(1, 5)), RMul(Q(1, 5), Q(1, 5))) = Q(2, 25)
    /\ result.value = R(86) /\ oxygenLevel = R(86)
=============================================================================
